---- MODULE Spec2Model ----
(***************************************************************************)
(* State-machine model of src/ec2_automation.py: one run of                *)
(* ScientifowAutomation.run_full_automation against the EC2 and SSM        *)
(* services.  The orchestrator is a single thread; the only concurrent     *)
(* actor is the SSM service, which advances the status of the commands it  *)
(* has accepted.                                                           *)
(***************************************************************************)
EXTENDS Integers, Sequences, FiniteSets, TLC

VARIABLES
    pc,               \* position of the orchestrator in run_full_automation
    now,              \* time.time(), in seconds
    instance_id,      \* self.instance_id
    commands,         \* self.commands : command name -> command id
    results,          \* the results dict of run_full_automation
    workflow_success, \* local variable of run_full_automation (line 452)
    wait_start,       \* local start_time of wait_for_ssm_registration
    cur,              \* the command id monitor_command is polling, 0 if none
    polls,            \* polls issued by the current monitor_command call
    svc,              \* SSM service: command id -> [name, status, result]
    ec2_calls,        \* EC2 API calls made so far: [create, terminate]
    sent,             \* stages whose ssm.send_command call was made, in order
    raised,           \* the EC2 API calls that raised an exception
    ret,              \* return values of launch_instance and wait_for_ssm_registration
    env,              \* the process environment read by os.getenv at import
    ssm_log,          \* last poll of wait_for_ssm_registration: [last, in_time]
    polled            \* ids of the commands get_command_invocation was called for

vars == <<pc, now, instance_id, commands, results, workflow_success,
          wait_start, cur, polls, svc, ec2_calls, sent, raised, ret,
          env, ssm_log, polled>>

-----------------------------------------------------------------------------
(* Bounds of the model *)

\* polls one monitor_command call may issue before the model stops following it
MaxPolls == 2

\* the same, in the runs in which the service never finishes a command
StalledPolls == 30

(* Program constants *)

SETTLE_DELAY == 30
SSM_TIMEOUT == 300
SSM_POLL_INTERVAL == 10
MONITOR_POLL_INTERVAL == 5
OUTPUT_LIMIT == 1000

None == "None"
NewInstanceId == "i-1"

\* keys of results["commands"], in pipeline order
Stages == <<"environment_check", "scientiflow_workflow", "s3_upload">>

StageSet == {Stages[i] : i \in 1..Len(Stages)}

\* the command_name each stage passes to send_command
CommandName(stage) ==
    CASE stage = "environment_check"    -> "Environment Check"
      [] stage = "scientiflow_workflow" -> "Complete Scientiflow Workflow"
      [] stage = "s3_upload"            -> "S3 Upload"

TerminalStatuses == {"Success", "Failed", "Cancelled", "TimedOut"}

\* raw output pairs the service may hold for a finished command
Payloads ==
    { <<>>,
      [StandardOutputContent |-> <<" ", "o", " ">>,
       StandardErrorContent  |-> <<"e", " ">>] }

\* the characters of the outputs of the model
Chars == {" ", "o", "e", "E"}

\* str(e) of a polling exception
PollErrorText == <<"E">>

-----------------------------------------------------------------------------
(* Pure helpers *)

IsSpace(c) == c = " "

RECURSIVE lstrip(_)
lstrip(s) == IF s # <<>> /\ IsSpace(Head(s)) THEN lstrip(Tail(s)) ELSE s

RECURSIVE rstrip(_)
rstrip(s) ==
    IF s # <<>> /\ IsSpace(s[Len(s)]) THEN rstrip(SubSeq(s, 1, Len(s) - 1)) ELSE s

\* str.strip()
strip(s) == rstrip(lstrip(s))

\* x[:1000] if x else ""
Truncate(s) ==
    IF s # <<>> THEN SubSeq(s, 1, IF Len(s) < OUTPUT_LIMIT THEN Len(s) ELSE OUTPUT_LIMIT)
    ELSE <<>>

\* dict.get(key, default)
Get(d, key, default) == IF key \in DOMAIN d THEN d[key] ELSE default

\* variant: only the status Failed counts as a failure
MonitorReturnUnlessFailed(status, result) ==
    [success |-> status # "Failed",
     stdout  |-> strip(Get(result, "StandardOutputContent", <<>>)),
     stderr  |-> strip(Get(result, "StandardErrorContent", <<>>))]

\* the tuple monitor_command returns on a terminal status, from the status
\* and the rest of the get_command_invocation result (lines 192-205)
MonitorReturn(status, result) ==
    [success |-> status = "Success",
     stdout  |-> strip(Get(result, "StandardOutputContent", <<>>)),
     stderr  |-> strip(Get(result, "StandardErrorContent", <<>>))]

\* the tuple monitor_command returns when the poll raises
MonitorError == [success |-> FALSE, stdout |-> <<>>, stderr |-> PollErrorText]

\* the tuple run_* returns when send_command returned None
DispatchFailed == [success |-> FALSE, stdout |-> <<>>, stderr |-> <<>>]

\* the entry run_full_automation stores in results["commands"]
StageEntry(r) ==
    [success |-> r.success, stdout |-> Truncate(r.stdout), stderr |-> Truncate(r.stderr)]

-----------------------------------------------------------------------------
(* Configuration read at import (lines 19-41) *)

\* variant: the check of JOB_TITLE is missing
RequiredVarsWithoutJobTitle ==
    <<"SCIENTIFLOW_TOKEN_CONTENT", "FIRST_JOB_FLAG", "EXTEND_JOB_FLAG",
      "INPUT_S3_PROJECT_PATH", "USER_ID", "PROJECT_TITLE">>

\* the variables checked by lines 28-41, in the order of the checks
RequiredVars ==
    <<"SCIENTIFLOW_TOKEN_CONTENT", "FIRST_JOB_FLAG", "EXTEND_JOB_FLAG",
      "INPUT_S3_PROJECT_PATH", "USER_ID", "PROJECT_TITLE", "JOB_TITLE">>

\* read by line 26 and never checked
OptionalVars == {"JOB_ID"}

\* the variables read by lines 19-26
EnvVars ==
    {"SCIENTIFLOW_TOKEN_CONTENT", "FIRST_JOB_FLAG", "EXTEND_JOB_FLAG",
     "INPUT_S3_PROJECT_PATH", "USER_ID", "PROJECT_TITLE", "JOB_TITLE", "JOB_ID"}

\* os.getenv yields None for an unset variable, else its string
EnvValues == {None, "", "v"}

\* Python truth of an os.getenv value: not None and not empty
Truthy(x) == x # None /\ x # ""

\* the index in RequiredVars of the first check that raises, 0 if none does
RECURSIVE FirstMissing(_, _)
FirstMissing(e, i) ==
    IF i > Len(RequiredVars) THEN 0
    ELSE IF ~Truthy(e[RequiredVars[i]]) THEN i
    ELSE FirstMissing(e, i + 1)

\* the environments a process may be started in
Environments ==
    {e \in [EnvVars -> EnvValues] : e["JOB_ID"] \in {None, "v"}}

\* an environment in which the module loads
ValidEnv == [v \in EnvVars |-> "v"]

\* the state before the module is imported, apart from pc and env
Fresh ==
    /\ now = 0
    /\ instance_id = None
    /\ commands = <<>>
    /\ results = <<>>
    /\ workflow_success = FALSE
    /\ wait_start = 0
    /\ cur = 0
    /\ polls = 0
    /\ svc = <<>>
    /\ ec2_calls = [create |-> 0, terminate |-> 0]
    /\ sent = <<>>
    /\ raised = {}
    /\ ret = [module |-> None, launch |-> None, ssm |-> None]
    /\ ssm_log = [last |-> None, in_time |-> TRUE]
    /\ polled = {}

\* the process starts: nothing imported yet, any environment
InitImport ==
    /\ pc = "import"
    /\ env \in Environments
    /\ Fresh

\* the module body, lines 19-45: read the environment, raise ValueError at
\* the first required variable that is unset or empty; then main constructs
\* ScientifowAutomation (lines 487, 49-51)
LoadModule ==
    /\ pc = "import"
    /\ LET i == FirstMissing(env, 1) IN
         IF i = 0
         THEN /\ pc' = "start"
              /\ ret' = [ret EXCEPT !.module = "loaded"]
         ELSE /\ pc' = "config_error"
              /\ ret' = [ret EXCEPT !.module = RequiredVars[i]]
    /\ UNCHANGED <<env, ssm_log, polled, now, instance_id, commands, results,
                   workflow_success, wait_start, cur, polls, svc, ec2_calls,
                   sent, raised>>

-----------------------------------------------------------------------------
\* the state after the module loaded and ScientifowAutomation was constructed
Init ==
    /\ pc = "start"
    /\ env = ValidEnv
    /\ Fresh

\* run_full_automation, lines 419-428: build the results dict
RunStart ==
    /\ pc = "start"
    /\ results' = [start_time |-> now, instance_id |-> None,
                   commands |-> <<>>, success |-> FALSE, error |-> None]
    /\ pc' = "launch"
    /\ UNCHANGED <<env, ssm_log, polled, now, instance_id, commands, workflow_success, wait_start,
                   cur, polls, svc, ec2_calls, sent, raised, ret>>

\* variant: the except clause does not store the message
AbortSilently(msg) ==
    /\ pc' = "finally"
    /\ UNCHANGED results

\* raise Exception(msg) inside the try block, caught at lines 472-474
Abort(msg) ==
    /\ results' = [results EXCEPT !.error = msg]
    /\ pc' = "finally"

\* launch_instance up to the assignment of self.instance_id (lines 70-103),
\* and the caller's reaction when it returns False
CreateInstances ==
    /\ pc = "launch"
    /\ ec2_calls' = [ec2_calls EXCEPT !.create = @ + 1]
    /\ \E ok \in BOOLEAN :
         IF ok
         THEN /\ instance_id' = NewInstanceId
              /\ pc' = "wait_running"
              /\ UNCHANGED <<results, raised, ret>>
         ELSE /\ raised' = raised \cup {"create_instances"}
              /\ ret' = [ret EXCEPT !.launch = "False"]
              /\ Abort("Failed to launch instance")
              /\ UNCHANGED instance_id
    /\ UNCHANGED <<env, ssm_log, polled, now, commands, workflow_success, wait_start, cur, polls,
                   svc, sent>>

\* launch_instance from wait_until_running to its return (lines 105-121),
\* then lines 431-434 of the caller
WaitUntilRunning ==
    /\ pc = "wait_running"
    /\ \E ok \in BOOLEAN :
         IF ok
         THEN /\ now' = now + SETTLE_DELAY
              /\ ret' = [ret EXCEPT !.launch = "True"]
              /\ results' = [results EXCEPT !.instance_id = instance_id]
              /\ wait_start' = now'
              /\ pc' = "ssm_wait"
              /\ UNCHANGED raised
         ELSE /\ raised' = raised \cup {"wait_until_running"}
              /\ ret' = [ret EXCEPT !.launch = "False"]
              /\ Abort("Failed to launch instance")
              /\ UNCHANGED <<now, wait_start>>
    /\ UNCHANGED <<env, ssm_log, polled, instance_id, commands, workflow_success, cur, polls, svc,
                   ec2_calls, sent>>

\* what one describe_instance_information call may yield: an exception, an
\* empty InstanceInformationList, or a PingStatus
SsmResponses == {"error", "empty", "ConnectionLost", "Online"}

\* variant: any registration entry counts, whatever its PingStatus
SsmRegistered(resp) == resp \notin {"error", "empty"}

\* the call did not raise, the list is not empty and its first entry has
\* PingStatus Online (lines 139-143)
SsmOnline(resp) == resp = "Online"

\* one iteration of the loop of wait_for_ssm_registration (lines 128-152)
SsmPoll ==
    /\ pc = "ssm_wait"
    /\ now - wait_start < SSM_TIMEOUT
    /\ \E resp \in SsmResponses :
         /\ ssm_log' = [last |-> resp, in_time |-> now < wait_start + SSM_TIMEOUT]
         /\ IF SsmOnline(resp)
            THEN /\ ret' = [ret EXCEPT !.ssm = "True"]
                 /\ pc' = "env_check"
                 /\ UNCHANGED now
            ELSE /\ now' = now + SSM_POLL_INTERVAL
                 /\ UNCHANGED <<pc, ret>>
    /\ UNCHANGED <<env, polled, instance_id, commands, results, workflow_success, wait_start,
                   cur, polls, svc, ec2_calls, sent, raised>>

\* variant: the return value of wait_for_ssm_registration is ignored
RegistrationNeverFatal(registered) == FALSE

\* if not self.wait_for_ssm_registration(): raise ... (line 437)
RegistrationFatal(registered) == ~registered

\* the loop condition fails: wait_for_ssm_registration returns False
\* (lines 154-155) and the caller raises (lines 437-438)
SsmTimeout ==
    /\ pc = "ssm_wait"
    /\ ~(now - wait_start < SSM_TIMEOUT)
    /\ ret' = [ret EXCEPT !.ssm = "False"]
    /\ IF RegistrationFatal(FALSE)
       THEN Abort("Instance failed to register with SSM")
       ELSE pc' = "env_check" /\ UNCHANGED results
    /\ UNCHANGED <<env, ssm_log, polled, now, instance_id, commands, workflow_success, wait_start,
                   cur, polls, svc, ec2_calls, sent, raised>>

-----------------------------------------------------------------------------
(* The SSM service *)

Terminal(id) == svc[id].status \in TerminalStatuses

\* the service moves an accepted command Pending -> InProgress -> terminal,
\* as long as the instance has not been terminated; a terminal command never
\* changes again
SvcAdvance ==
    /\ ec2_calls.terminate = 0
    /\ \E id \in 1..Len(svc) :
         \/ /\ svc[id].status = "Pending"
            /\ svc' = [svc EXCEPT ![id].status = "InProgress"]
         \/ /\ svc[id].status = "InProgress"
            /\ \E st \in TerminalStatuses, p \in Payloads :
                 svc' = [svc EXCEPT ![id] =
                           [name |-> @.name, status |-> st, result |-> p]]
    /\ UNCHANGED <<env, ssm_log, polled, pc, now, instance_id, commands, results, workflow_success,
                   wait_start, cur, polls, ec2_calls, sent, raised, ret>>

-----------------------------------------------------------------------------
(* Command stages *)

\* variant: a stage whose dispatch failed leaves no entry
RecordedIfDispatched(res, stage, r) ==
    IF r = DispatchFailed
    THEN res
    ELSE [res EXCEPT !.commands = (stage :> StageEntry(r)) @@ @]

\* results with results["commands"][stage] set from the tuple r
Recorded(res, stage, r) ==
    [res EXCEPT !.commands = (stage :> StageEntry(r)) @@ @]

\* variant: the pipeline goes on after a failed environment check
EnvNeverFatal(env_success) == FALSE

\* if not env_success: raise ... (line 448)
EnvFatal(env_success) == ~env_success

\* variant: the upload's outcome enters the overall outcome
OverallSuccessWithUpload(wf_success, s3_success) == wf_success /\ s3_success

\* variant: reaching the end of the try block counts as success
OverallSuccessAlways(wf_success, s3_success) == TRUE

\* variant: the overall outcome is left at its initial value
OverallSuccessUnset(wf_success, s3_success) == FALSE

\* results["success"] = workflow_success (line 468)
OverallSuccess(wf_success, s3_success) == wf_success

\* variant: the upload follows the environment check, the workflow is left out
AfterEnvironmentCheckThenUpload(r) ==
    /\ results' = [Recorded(results, "environment_check", r) EXCEPT
                     !.error = IF EnvFatal(r.success) THEN "Environment check failed" ELSE @]
    /\ pc' = IF EnvFatal(r.success) THEN "finally" ELSE "upload"
    /\ UNCHANGED workflow_success

\* the code of run_full_automation that follows the return of
\* run_environment_check with the tuple r (lines 441-449)
AfterEnvironmentCheck(r) ==
    /\ results' = [Recorded(results, "environment_check", r) EXCEPT
                     !.error = IF EnvFatal(r.success) THEN "Environment check failed" ELSE @]
    /\ pc' = IF EnvFatal(r.success) THEN "finally" ELSE "workflow"
    /\ UNCHANGED workflow_success

\* ... of run_scientiflow_workflow (lines 452-457)
AfterWorkflow(r) ==
    /\ results' = Recorded(results, "scientiflow_workflow", r)
    /\ workflow_success' = r.success
    /\ pc' = "upload"

\* ... of upload_results_to_s3 (lines 460-470)
AfterUpload(r) ==
    /\ results' = [Recorded(results, "s3_upload", r) EXCEPT
                     !.success = OverallSuccess(workflow_success, r.success)]
    /\ pc' = "finally"
    /\ UNCHANGED workflow_success

\* the continuation of the stage whose run_* method returned r
StageReturns(stage, r) ==
    CASE stage = "environment_check"    -> AfterEnvironmentCheck(r)
      [] stage = "scientiflow_workflow" -> AfterWorkflow(r)
      [] stage = "s3_upload"            -> AfterUpload(r)

\* variant: a rejected dispatch is tried again
send_command_retry(stage) ==
    /\ sent' = Append(sent, stage)
    /\ \E ok \in BOOLEAN :
         IF ok
         THEN /\ svc' = Append(svc, [name |-> stage, status |-> "Pending",
                                     result |-> <<>>])
              /\ commands' = (CommandName(stage) :> Len(svc) + 1) @@ commands
              /\ cur' = Len(svc) + 1
              /\ polls' = 0
              /\ pc' = "monitor"
              /\ UNCHANGED <<results, workflow_success>>
         ELSE /\ Len(sent) < 4
              /\ UNCHANGED <<pc, results, workflow_success, svc, commands, cur, polls>>
    /\ UNCHANGED <<env, ssm_log, polled, now, instance_id, wait_start, ec2_calls, raised, ret>>

\* send_command (lines 157-176) as called by the run_* method of stage, and
\* that method's return when the command id is None
send_command(stage) ==
    /\ sent' = Append(sent, stage)
    /\ \E ok \in BOOLEAN :
         IF ok
         THEN /\ svc' = Append(svc, [name |-> stage, status |-> "Pending",
                                     result |-> <<>>])
              /\ commands' = (CommandName(stage) :> Len(svc) + 1) @@ commands
              /\ cur' = Len(svc) + 1
              /\ polls' = 0
              /\ pc' = "monitor"
              /\ UNCHANGED <<results, workflow_success>>
         ELSE /\ StageReturns(stage, DispatchFailed)
              /\ UNCHANGED <<svc, commands, cur, polls>>
    /\ UNCHANGED <<env, ssm_log, polled, now, instance_id, wait_start, ec2_calls, raised, ret>>

run_environment_check == pc = "env_check" /\ send_command("environment_check")

run_scientiflow_workflow == pc = "workflow" /\ send_command("scientiflow_workflow")

upload_results_to_s3 == pc = "upload" /\ send_command("s3_upload")

\* one iteration of the loop of monitor_command (lines 182-212): the poll
\* raises, or it reports the status the service holds for the command.  The
\* loop has no exit of its own; cap is where the model stops following it.
MonitorStep(cap) ==
    /\ pc = "monitor"
    /\ polls < cap
    /\ polled' = polled \cup {cur}
    /\ \E poll_raises \in BOOLEAN :
         IF poll_raises
         THEN /\ StageReturns(svc[cur].name, MonitorError)
              /\ cur' = 0 /\ polls' = 0
              /\ UNCHANGED now
         ELSE IF Terminal(cur)
         THEN /\ StageReturns(svc[cur].name,
                              MonitorReturn(svc[cur].status, svc[cur].result))
              /\ cur' = 0 /\ polls' = 0
              /\ UNCHANGED now
         ELSE /\ now' = now + MONITOR_POLL_INTERVAL
              /\ polls' = polls + 1
              /\ UNCHANGED <<pc, results, workflow_success, cur>>
    /\ UNCHANGED <<env, ssm_log, instance_id, commands, wait_start, svc, ec2_calls, sent,
                   raised, ret>>

monitor_command == MonitorStep(MaxPolls)

\* the same loop, followed further, for the runs against a stalled service
monitor_command_stalled == MonitorStep(StalledPolls)

\* TimeoutSeconds each stage passes to send_command (lines 234, 359, 393)
DeclaredTimeout(stage) ==
    CASE stage = "environment_check"    -> 120
      [] stage = "scientiflow_workflow" -> 1800
      [] stage = "s3_upload"            -> 300

-----------------------------------------------------------------------------
(* Cleanup *)

\* variant: the guard reads results["instance_id"], which is set only after
\* launch_instance returned True
HasInstanceInResults(id) == results.instance_id # None

\* variant: no guard
AlwaysTerminate(id) == TRUE

\* if not self.instance_id: return (line 400)
HasInstance(id) == id # None

\* what the terminate / wait_until_terminated calls may do
TerminateOutcomes == {"ok", "terminate", "wait_until_terminated"}

\* variant: no except clause
TerminateRaises(outcome) == outcome # "ok"

\* whether an exception of the calls escapes terminate_instance: the
\* except clause of lines 414-415 catches it
TerminatePropagates(outcome) == FALSE

\* variant: the operands of the subtraction are swapped
TimingReversed(start, end) == [end_time |-> end, duration |-> start - end]

\* results["end_time"] and results["duration"] (lines 479-480)
Timing(start, end) == [end_time |-> end, duration |-> end - start]

\* the finally block (lines 476-482): terminate_instance (lines 398-415),
\* then end_time and duration, then the return of results
Finalize ==
    /\ pc = "finally"
    /\ IF HasInstance(instance_id)
       THEN \E outcome \in TerminateOutcomes :
              /\ ec2_calls' = [ec2_calls EXCEPT !.terminate = @ + 1]
              /\ raised' = IF outcome = "ok" THEN raised ELSE raised \cup {outcome}
              /\ IF TerminatePropagates(outcome)
                 THEN pc' = "raised" /\ UNCHANGED results
                 ELSE /\ results' = Timing(results.start_time, now) @@ results
                      /\ pc' = "done"
       ELSE /\ results' = Timing(results.start_time, now) @@ results
            /\ pc' = "done"
            /\ UNCHANGED <<ec2_calls, raised>>
    /\ UNCHANGED <<env, ssm_log, polled, now, instance_id, commands, workflow_success, wait_start,
                   cur, polls, svc, sent, ret>>

-----------------------------------------------------------------------------
Next ==
    \/ RunStart
    \/ CreateInstances
    \/ WaitUntilRunning
    \/ SsmPoll
    \/ SsmTimeout
    \/ run_environment_check
    \/ run_scientiflow_workflow
    \/ upload_results_to_s3
    \/ monitor_command
    \/ SvcAdvance
    \/ Finalize

Spec == Init /\ [][Next]_vars

\* the run against a service that accepts commands and never moves them out
\* of Pending: the stages after the environment check are never reached
NextStalled ==
    \/ RunStart
    \/ CreateInstances
    \/ WaitUntilRunning
    \/ SsmPoll
    \/ SsmTimeout
    \/ run_environment_check
    \/ monitor_command_stalled
    \/ Finalize

SpecStalled == Init /\ [][NextStalled]_vars

\* the run from the start of the process, in any environment
NextImport == LoadModule \/ Next

SpecImport == InitImport /\ [][NextImport]_vars

-----------------------------------------------------------------------------
(* Vocabulary of the properties *)

\* run_full_automation has returned results
Returned == pc = "done"

\* the try block of run_full_automation has been left
Finalizing == pc \in {"finally", "done"}

\* ssm.send_command was called for the stage's batch
Attempted(stage) == \E i \in 1..Len(sent) : sent[i] = stage

\* the create-instance call returned an instance: a handle was obtained
HandleObtained == ec2_calls.create > 0 /\ "create_instances" \notin raised

HasEntry(stage) == pc # "start" /\ stage \in DOMAIN results.commands

\* the stage has an entry, and it says success / failure
StageSucceeded(stage) == HasEntry(stage) /\ results.commands[stage].success

StageFailed(stage) == HasEntry(stage) /\ ~results.commands[stage].success

\* the service holds the given status for the stage's command
StatusAtService(stage, status) ==
    \E id \in 1..Len(svc) : svc[id].name = stage /\ svc[id].status = status

TerminationFailures == {"terminate", "wait_until_terminated"}

-----------------------------------------------------------------------------
(* Properties *)

\* C1: terminate is never invoked twice, and when run_full_automation
\* returns after a handle was obtained, on whatever path, terminate has been
\* invoked exactly once.
C1_FinalizeInvariant ==
    /\ ec2_calls.terminate <= 1
    /\ (Returned /\ HandleObtained) => ec2_calls.terminate = 1

\* C1 witness: the run returned after wait_until_running raised, that is after
\* an exception that followed the assignment of the handle.
C1_Witness ==
    /\ Returned /\ HandleObtained
    /\ "wait_until_running" \in raised
    /\ ec2_calls.terminate = 1

\* C2 as stated: whenever launch_instance returned False, terminate is never
\* invoked.
C2_NoTerminateAfterFailedLaunch ==
    ret.launch = "False" => ec2_calls.terminate = 0

\* C2 amended: when launch_instance fails because the create-instance call
\* raised, terminate is never invoked; when it fails because the wait for the
\* running state raised, the run returns with terminate invoked once.
C2_NoTerminateWithoutHandle ==
    /\ "create_instances" \in raised => ec2_calls.terminate = 0
    /\ (Returned /\ "wait_until_running" \in raised) => ec2_calls.terminate = 1

\* C2 witness: a returned run whose create-instance call raised.
C2_Witness ==
    /\ Returned /\ ret.launch = "False"
    /\ "create_instances" \in raised
    /\ ec2_calls.terminate = 0

\* C3 as stated: in the returned result, success is true if and only if the
\* workflow batch was attempted and its terminal status at the service is
\* Success.
C3_OutcomeDeterminism ==
    Returned =>
      (results.success <=>
         (Attempted("scientiflow_workflow")
            /\ StatusAtService("scientiflow_workflow", "Success")))

\* C4 as stated: once the environment check has ended without success and the
\* instance is being terminated, the upload batch has been attempted.
C4_UploadAfterFailedEnvironmentCheck ==
    (StageFailed("environment_check") /\ ec2_calls.terminate > 0)
      => Attempted("s3_upload")

\* C4 amended: when the environment check ends without success, no further
\* batch is dispatched, neither the workflow nor the upload: the run goes to
\* the finally block and returns with the instance terminated once.
C4_NoBatchAfterFailedEnvironmentCheck ==
    StageFailed("environment_check") =>
      /\ Finalizing
      /\ sent = <<"environment_check">>
      /\ Returned => ec2_calls.terminate = 1

\* C4 witness: a returned run whose environment check ended Failed at the
\* service.
C4_Witness ==
    /\ Returned
    /\ StageFailed("environment_check")
    /\ StatusAtService("environment_check", "Failed")
    /\ ec2_calls.terminate = 1

\* C5: once the try block is left after the workflow was attempted, the upload
\* was attempted after it, the upload has an entry, and success equals the
\* workflow's own outcome whatever the upload's.
C5_UploadBestEffort ==
    (Finalizing /\ Attempted("scientiflow_workflow")) =>
      /\ sent = Stages
      /\ HasEntry("scientiflow_workflow")
      /\ HasEntry("s3_upload")
      /\ results.success = results.commands["scientiflow_workflow"].success

\* C5 witness: the workflow failed, the upload succeeded, success is false.
C5_Witness ==
    /\ Returned
    /\ StageFailed("scientiflow_workflow")
    /\ StageSucceeded("s3_upload")
    /\ ~results.success

\* C6: once wait_for_ssm_registration has returned False, the run is in or
\* past the finally block, no batch was dispatched, success is false, at most
\* one stage result is recorded, and the returned run terminated once.
C6_RegistrationNeverCompletes ==
    ret.ssm = "False" =>
      /\ Finalizing
      /\ sent = <<>> /\ svc = <<>>
      /\ ~results.success
      /\ Cardinality(DOMAIN results.commands) <= 1
      /\ Returned => ec2_calls.terminate = 1

\* C6 witness: a returned run whose registration wait timed out.
C6_Witness ==
    /\ Returned
    /\ ret.launch = "True" /\ ret.ssm = "False"
    /\ ec2_calls.terminate = 1

\* C7: a failed environment check is never followed by the dispatch of the
\* workflow, and once the try block is left a stage has an entry in the stage
\* results exactly when it was attempted.
C7_SkippedStagesDistinguishable ==
    /\ StageFailed("environment_check") => ~Attempted("scientiflow_workflow")
    /\ Finalizing =>
         \A stage \in StageSet : HasEntry(stage) <=> Attempted(stage)

\* C7 witness: the dispatch of the environment check failed; its entry is the
\* only one.
C7_Witness ==
    /\ Returned
    /\ sent = <<"environment_check">> /\ svc = <<>>
    /\ StageFailed("environment_check")
    /\ DOMAIN results.commands = {"environment_check"}

\* launch, registration and the three stages all succeeded
HappyPath ==
    /\ Returned
    /\ ret.launch = "True" /\ ret.ssm = "True"
    /\ \A stage \in StageSet : StageSucceeded(stage)

\* C8 as stated: on the happy path success is true, four stage results are
\* recorded and terminate is invoked once.
C8_HappyPathFourResults ==
    HappyPath =>
      /\ results.success
      /\ Cardinality(DOMAIN results.commands) = 4
      /\ ec2_calls.terminate = 1

\* C8 amended: on the happy path success is true, exactly three stage results
\* are recorded (environment_check, scientiflow_workflow, s3_upload) and
\* terminate is invoked once.
C8_HappyPathThreeResults ==
    HappyPath =>
      /\ results.success
      /\ DOMAIN results.commands = StageSet
      /\ Cardinality(DOMAIN results.commands) = 3
      /\ ec2_calls.terminate = 1

\* C8 witness: a returned happy path.
C8_Witness == HappyPath /\ results.success /\ results.error = None

\* C9: when the create-instance call raised, the returned result has no
\* instance id, an error, success false, and terminate was not invoked.
C9_ProvisioningThrows ==
    (Returned /\ "create_instances" \in raised) =>
      /\ results.instance_id = None
      /\ results.error # None
      /\ ~results.success
      /\ ec2_calls.terminate = 0

\* C9 witness: a returned run whose create-instance call raised, with the
\* launch error recorded.
C9_Witness ==
    /\ Returned
    /\ "create_instances" \in raised
    /\ results.error = "Failed to launch instance"
    /\ instance_id = None

\* C10: a finally block in which terminate or the wait for termination raises
\* still ends with the return of results, with success and error as the
\* pipeline left them.
C10_TerminationFailureSoft ==
    [][(pc = "finally" /\ TerminationFailures \cap (raised' \ raised) # {})
         => /\ pc' = "done"
            /\ results'.success = results.success
            /\ results'.error = results.error]_vars

\* C10 witness: a run returned with success although the wait for termination
\* raised.
C10_Witness ==
    /\ Returned
    /\ "wait_until_terminated" \in raised
    /\ results.success

\* C11: every returned result is complete: end_time and duration are present,
\* end_time is not before start_time, duration is their difference, and the
\* overall outcome is a boolean.
C11_CompleteResult ==
    Returned =>
      /\ {"start_time", "end_time", "duration", "success"} \subseteq DOMAIN results
      /\ results.end_time >= results.start_time
      /\ results.duration = results.end_time - results.start_time
      /\ results.success \in BOOLEAN

\* C11 witness: a run that aborted at the registration wait returned with a
\* positive duration.
C11_Witness ==
    /\ Returned
    /\ ret.ssm = "False"
    /\ results.duration > 0
    /\ results.end_time = now

\* the configuration fields the run requires: token, first-job flag,
\* extend-job flag, input storage path, user id, project title, job title
RequiredFields == EnvVars \ {"JOB_ID"}

ConfigComplete == \A v \in RequiredFields : env[v] # None /\ env[v] # ""

\* C12: once the module body has run, a missing or empty required field has
\* ended the process in a configuration error with no create-instance call
\* made, and a complete configuration, with or without the job id, has not;
\* no create-instance call is ever made under an incomplete configuration.
C12_ConfigurationBeforeProvisioning ==
    /\ (pc # "import" /\ ~ConfigComplete) =>
         /\ pc = "config_error"
         /\ ret.module \in RequiredFields
         /\ ec2_calls.create = 0
         /\ instance_id = None
    /\ (pc # "import" /\ ConfigComplete) =>
         /\ pc # "config_error"
         /\ ret.module = "loaded"
    /\ ec2_calls.create > 0 => ConfigComplete

\* C12 witness: only the job title is empty, and the process has ended in
\* the configuration error naming it, before any create-instance call.
C12_Witness ==
    /\ pc = "config_error"
    /\ env["JOB_TITLE"] = ""
    /\ \A v \in RequiredFields \ {"JOB_TITLE"} : env[v] = "v"
    /\ env["JOB_ID"] = None
    /\ ret.module = "JOB_TITLE"
    /\ ec2_calls.create = 0

\* C13 as stated: a poll error does not end the wait: whenever
\* monitor_command has returned for a dispatched batch, the service holds a
\* terminal status for it and the returned outcome is that of this status.
C13_PollErrorDoesNotAbortWait ==
    \A id \in 1..Len(svc) :
      HasEntry(svc[id].name) =>
        /\ Terminal(id)
        /\ results.commands[svc[id].name].success = (svc[id].status = "Success")

\* the commands accepted by the service that have no terminal status yet
InFlight == {id \in 1..Len(svc) : ~Terminal(id)}

\* C14 as stated: at most one batch is in flight at any time, so when a batch
\* is dispatched every earlier one has reached a terminal status.
C14_OneBatchInFlight == Cardinality(InFlight) <= 1

\* C15 as stated: the wait of monitor_command is bounded by a budget checked
\* at each iteration.  The budget taken here is the one the batch declares,
\* its TimeoutSeconds, with one poll interval of slack: while monitor_command
\* waits, the time it has slept does not exceed it.
C15_MonitorWithinBudget ==
    pc = "monitor" =>
      polls * MONITOR_POLL_INTERVAL
        <= DeclaredTimeout(svc[cur].name) + MONITOR_POLL_INTERVAL

\* the responses wait_for_ssm_registration treats as a miss
SsmMisses == {"error", "empty", "ConnectionLost"}

\* C16: wait_for_ssm_registration has returned True only when its last poll,
\* made before the timeout elapsed, observed Online; a miss never ends the
\* wait before the timeout; it has returned False only once the timeout has
\* elapsed with the last poll a miss; and while it waits the elapsed time
\* stays within the timeout, each miss advancing it by one poll interval, and
\* the loop can always take its next step.
C16_RegistrationWait ==
    /\ ret.ssm = "True" => (ssm_log.last = "Online" /\ ssm_log.in_time)
    /\ (ssm_log.last \in SsmMisses /\ now - wait_start < SSM_TIMEOUT) =>
         (pc = "ssm_wait" /\ ret.ssm = None)
    /\ ret.ssm = "False" =>
         /\ ssm_log.last \in SsmMisses
         /\ now - wait_start >= SSM_TIMEOUT
         /\ Finalizing
    /\ pc = "ssm_wait" =>
         /\ now - wait_start <= SSM_TIMEOUT
         /\ (now - wait_start) % SSM_POLL_INTERVAL = 0
         /\ ENABLED (SsmPoll \/ SsmTimeout)

\* C16 witness: after misses only, the last poll before the timeout observed
\* Online and the call returned True.
C16_Witness ==
    /\ ret.ssm = "True"
    /\ ssm_log.last = "Online"
    /\ now - wait_start = SSM_TIMEOUT - SSM_POLL_INTERVAL
    /\ pc = "env_check"

\* how often ssm.send_command was called for the stage's batch
Dispatches(stage) == Cardinality({i \in 1..Len(sent) : sent[i] = stage})

\* the service accepted a command for the stage
Accepted(stage) == \E id \in 1..Len(svc) : svc[id].name = stage

\* C17: create-instance is called at most once and each batch is sent at most
\* once; a stage whose dispatch was rejected has at once the entry of a
\* failed stage with empty stdout and stderr; and polls are only ever issued
\* for commands the service accepted.
C17_NoRetries ==
    /\ ec2_calls.create <= 1
    /\ \A stage \in StageSet :
         /\ Dispatches(stage) <= 1
         /\ (Attempted(stage) /\ ~Accepted(stage)) =>
              /\ HasEntry(stage)
              /\ results.commands[stage] =
                   [success |-> FALSE, stdout |-> <<>>, stderr |-> <<>>]
    /\ \A id \in polled : id \in 1..Len(svc) /\ Accepted(svc[id].name)
    /\ Len(svc) <= Len(sent)

\* C17 witness: the dispatch of the workflow was rejected; the run went on to
\* the upload and returned, the workflow recorded as failed with no output.
C17_Witness ==
    /\ Returned
    /\ sent = Stages
    /\ ~Accepted("scientiflow_workflow")
    /\ StageFailed("scientiflow_workflow")
    /\ results.commands["scientiflow_workflow"].stderr = <<>>
    /\ polled = {1, 2}

\* the entry of a stage whose monitor_command call ended on a poll exception
PollErrorEntry == [success |-> FALSE, stdout |-> <<>>, stderr |-> <<"E">>]

\* C18: the entry of a stage whose batch was accepted is either that of a
\* poll exception or was returned on a terminal status, with success true for
\* Success and false for Failed, Cancelled and TimedOut, and with an empty
\* stdout and stderr when the service sent no output; stdout and stderr of
\* every entry are strings.
C18_StatusMapping ==
    /\ \A id \in 1..Len(svc) :
         HasEntry(svc[id].name) =>
           LET e == results.commands[svc[id].name] IN
             \/ e = PollErrorEntry
             \/ /\ svc[id].status \in {"Success", "Failed", "Cancelled", "TimedOut"}
                /\ svc[id].status = "Success" => e.success
                /\ svc[id].status \in {"Failed", "Cancelled", "TimedOut"} => ~e.success
                /\ DOMAIN svc[id].result = {} => (e.stdout = <<>> /\ e.stderr = <<>>)
    /\ \A stage \in StageSet :
         HasEntry(stage) =>
           /\ results.commands[stage].stdout \in Seq(Chars)
           /\ results.commands[stage].stderr \in Seq(Chars)

\* C18 witness: the environment check ended Success with no output, the
\* workflow ended TimedOut with output, and both are recorded accordingly.
C18_Witness ==
    /\ StatusAtService("environment_check", "Success")
    /\ StageSucceeded("environment_check")
    /\ results.commands["environment_check"].stdout = <<>>
    /\ StatusAtService("scientiflow_workflow", "TimedOut")
    /\ StageFailed("scientiflow_workflow")
    /\ results.commands["scientiflow_workflow"].stdout = <<"o">>
    /\ results.commands["scientiflow_workflow"].stderr = <<"e">>

\* C19 as stated: the returned instance_id is non-null exactly when the
\* create-instance call returned an instance, also when that instance never
\* reached the running state.
C19_InstanceIdIffCreated ==
    Returned => (results.instance_id # None <=> HandleObtained)

\* C20: in a returned result, success implies no error, an instance id, an
\* entry for each of the three stages and a successful environment check and
\* workflow; and error is set exactly when the run aborted at launch, at the
\* registration wait or at the environment check.
C20_ResultConsistency ==
    Returned =>
      /\ results.success =>
           /\ results.error = None
           /\ results.instance_id # None
           /\ \A stage \in StageSet : HasEntry(stage)
           /\ StageSucceeded("environment_check")
           /\ StageSucceeded("scientiflow_workflow")
      /\ results.error # None <=>
           \/ ret.launch = "False"
           \/ ret.ssm = "False"
           \/ StageFailed("environment_check")

\* C20 witness: a successful result whose upload failed: no error, all three
\* entries, the instance id set.
C20_Witness ==
    /\ Returned
    /\ results.success
    /\ StageFailed("s3_upload")
    /\ results.error = None
    /\ results.instance_id = NewInstanceId

\* a step in which ssm.send_command is called
Dispatching == sent' # sent

\* a step in which monitor_command calls get_command_invocation
Polling == pc = "monitor" /\ (polls' # polls \/ cur' # cur)

\* the batches dispatched so far are an initial part of the pipeline, in its
\* order
DispatchedInOrder ==
    /\ Len(sent) <= Len(Stages)
    /\ \A i \in 1..Len(sent) : sent[i] = Stages[i]

\* C21: every step that dispatches a batch or polls its status is taken after
\* wait_for_ssm_registration returned True and before terminate is invoked;
\* the batches are dispatched in the order environment check, workflow,
\* upload; and once terminate was invoked nothing more is dispatched or
\* polled.
C21_StageOrdering ==
    [][ /\ (Dispatching \/ Polling) =>
             /\ ret.ssm = "True"
             /\ ec2_calls.terminate = 0
             /\ ec2_calls'.terminate = 0
        /\ DispatchedInOrder'
        /\ ec2_calls.terminate > 0 => (sent' = sent /\ polled' = polled)
      ]_vars

\* C21 witness: terminate was invoked after all three batches had been
\* dispatched, in order, and each of them polled, the registration wait
\* having returned True.
C21_Witness ==
    /\ Returned
    /\ ret.ssm = "True"
    /\ sent = Stages
    /\ polled = {1, 2, 3}
    /\ ec2_calls.terminate = 1
====
